---- MODULE Spec2Model ----
(***************************************************************************)
(* Session and connection lifecycle of the Azure DevOps MCP remote         *)
(* servers.                                                                *)
(*                                                                         *)
(* Two entry points are modelled over the same state:                      *)
(*   entry = "remote" : class AzureDevOpsRemoteServer (Streamable HTTP on  *)
(*                      /mcp, deprecated SSE on /sse and /messages, stop())*)
(*   entry = "index"  : startRemoteServer() of index.ts (/sse, /messages,  *)
(*                      SIGINT handler)                                    *)
(*                                                                         *)
(* Node runs one callback at a time.  A request handler runs without       *)
(* interruption up to an `await`; every `await` in the source is a point   *)
(* where the handler is suspended and any other callback may run.  One     *)
(* action of the model is one such uninterrupted run.                      *)
(*                                                                         *)
(* The transports of the MCP SDK are library objects.  They are modelled   *)
(* by what the handlers rely on: the session id, the stream, the close     *)
(* callback, and the outcome of a call, which is a nondeterministic choice *)
(* among the outcomes the library documents (served, rejected, thrown).    *)
(***************************************************************************)
EXTENDS Integers, Sequences, FiniteSets, TLC

\* ---------------------------------------------------------------- bounds
MaxHandlers == 2      \* request handlers that can be in flight together
MaxTransports == 2    \* transport objects (and so session ids) made in one run

VARIABLES
    agents,       \* per server: the client info its UserAgentComposer holds
    listener,     \* app.listen: the port and what became of the start
    io,           \* the servers that asked for a credential / a connection
    entry,        \* which server is running: "remote" or "index"
    transports,   \* the session table: session id -> transport object
    tobj,         \* the transport objects constructed so far (a sequence)
    uuidCount,    \* how many session ids randomUUID has produced
    serverCount,  \* how many McpServer instances have been created
    handlers,     \* the suspended request handlers: position and locals
    out,          \* the response written by the last step, if it wrote one
    shutdown,     \* stop() / the SIGINT handler: position and loop state
    removed,      \* history: session ids whose entry was removed
    attempted     \* history: session ids shutdown has called close() on

vars == <<agents, listener, io, entry, transports, tobj, uuidCount, serverCount, handlers, out,
          shutdown, removed, attempted>>

Handlers == 1..MaxHandlers
SessionIds == 1..MaxTransports

\* ------------------------------------------------------------- responses
NoResponse == [status |-> 0, code |-> 0, msg |-> ""]

\* part_006 lines 132-139 and 247-254
WrongTransport ==
    [status |-> 400, code |-> -32000,
     msg |-> "Bad Request: Session exists but uses a different transport protocol"]

\* part_006 lines 164-171
NoValidSession ==
    [status |-> 400, code |-> -32000,
     msg |-> "Bad Request: No valid session ID provided or invalid initialization request"]

\* part_006 lines 221-228
SessionIdRequired ==
    [status |-> 400, code |-> -32000,
     msg |-> "Bad Request: sessionId query parameter is required"]

\* part_006 lines 235-242
NoTransportFound ==
    [status |-> 400, code |-> -32000,
     msg |-> "Bad Request: No transport found for sessionId"]

\* part_006 lines 179-186 and 263-270
InternalError ==
    [status |-> 500, code |-> -32603, msg |-> "Internal server error"]

\* part_006 line 212
SseSetupError == [status |-> 500, code |-> 0, msg |-> "Internal server error"]

\* index.ts line 184
IxMissingSessionId == [status |-> 400, code |-> 0, msg |-> "Missing sessionId parameter"]

\* index.ts line 191
IxSessionNotFound == [status |-> 404, code |-> 0, msg |-> "Session not found"]

\* index.ts line 171
IxSseError == [status |-> 500, code |-> 0, msg |-> "Error establishing SSE stream"]

\* index.ts line 201
IxRequestError == [status |-> 500, code |-> 0, msg |-> "Error handling request"]

\* Responses written by the SDK transport itself.
SdkOk == [status |-> 200, code |-> 0, msg |-> "ok"]
SdkAccepted == [status |-> 202, code |-> 0, msg |-> "Accepted"]
SdkRejected == [status |-> 400, code |-> -32600, msg |-> "Invalid Request"]
SdkNoStream == [status |-> 500, code |-> 0, msg |-> "SSE connection not established"]
SseStreamOpen == [status |-> 200, code |-> 0, msg |-> "event: endpoint"]

\* ------------------------------------------------------ transport objects
\* A transport that opens its stream in its constructor.
NewTransport_Started(k, sid) ==
    [kind |-> k, sessionId |-> sid, stream |-> "open", res |-> "open", server |-> 0]

\* kind      : the class of the object (instanceof)
\* sessionId : 0 while undefined
\* stream    : "new" (not started / not initialized), "open", "gone"
\* res       : for an SSE transport, the HTTP response of GET /sse
\* server    : the McpServer connected to the transport, 0 while none
NewTransport(k, sid) ==
    [kind |-> k, sessionId |-> sid, stream |-> "new", res |-> "open", server |-> 0]

Registered == DOMAIN transports

\* Map.set / property assignment
MapSet(m, k, v) == [x \in (DOMAIN m) \cup {k} |-> IF x = k THEN v ELSE m[x]]

\* A removal that takes the last entry when the key is absent.
MapDelete_Splice(m, k) ==
    IF k \in DOMAIN m \/ DOMAIN m = {}
    THEN [x \in (DOMAIN m) \ {k} |-> m[x]]
    ELSE [x \in (DOMAIN m) \ {CHOOSE y \in DOMAIN m : \A z \in DOMAIN m : z <= y}
            |-> m[x]]

\* Map.delete / delete operator
MapDelete(m, k) == [x \in (DOMAIN m) \ {k} |-> m[x]]

EmptyMap == [x \in {} |-> 0]

\* A generator that returns the id it returned last once more.
randomUUID_Repeating == IF uuidCount = 0 THEN 1 ELSE uuidCount

\* randomUUID(): a value no earlier call returned
randomUUID == uuidCount + 1

\* A factory that builds the API client of the server it makes at once.
ConstructionIo_Eager(s) == {s}

\* The servers that ask for a credential or a backend connection while
\* createMcpServer / createServer builds server s: none.  The factory hands
\* configureAllTools the token getter and the closure returned by
\* getAzureDevOpsClient, and calls neither.
ConstructionIo(s) == {}

\* The values of io after the server s was handed a message: an operation
\* that needs the backend calls the closure of getAzureDevOpsClient, which
\* awaits getAzureDevOpsToken() and then builds the WebApi connection; any
\* other message leaves io alone.
OperationIo(s) == {io, io \cup {s}}

\* A factory that hands out the instance it made last.
createMcpServer_Shared == IF serverCount = 0 THEN 1 ELSE serverCount

\* createMcpServer() / createServer(): a new McpServer instance on every call
createMcpServer == serverCount + 1

\* -------------------------------------------------------------- handlers
\* A handler that is suspended at an await: its route, the await it is at
\* (pc), the request (kind, sid) and its locals (transport t, server).
Idle ==
    [route |-> "idle", pc |-> "idle", kind |-> "none", sid |-> 0,
     t |-> 0, server |-> 0]

\* What a step answered: the request, the transport the request was handed
\* to (fwd, 0: none), whether the answer came in the request's first run
\* (first) or after an await, the response, and how many responses were
\* written to the request's res (n).
NoOutput ==
    [route |-> "none", kind |-> "none", sid |-> 0, fwd |-> 0, first |-> FALSE,
     resp |-> NoResponse, n |-> 0]

Min(S) == CHOOSE x \in S : \A y \in S : x <= y

IdleSlots == {h \in Handlers : handlers[h].pc = "idle"}

\* The slot a new request runs in.
Slot == Min(IdleSlots)

\* The HTTP listener takes requests once the port is bound, until
\* server.close() / process.exit().
Accepting ==
    /\ listener.port = "bound"
    /\ listener.proc = "running"
    /\ shutdown.pc \in {"idle", "loop"}

\* The request req is answered with r in its first run, handed to nothing.
Reject(req, r) ==
    /\ out' = [route |-> req.route, kind |-> req.kind, sid |-> req.sid,
               fwd |-> 0, first |-> TRUE, resp |-> r, n |-> 1]
    /\ UNCHANGED handlers

\* The suspended handler h finishes with response r; fwd is the transport
\* its request was handed to.
Finish(h, fwd, r) ==
    /\ out' = [route |-> handlers[h].route, kind |-> handlers[h].kind,
               sid |-> handlers[h].sid, fwd |-> fwd, first |-> FALSE, resp |-> r,
               n |-> 1]
    /\ handlers' = [handlers EXCEPT ![h] = Idle]

\* A catch block that answers 500 whatever was sent before.
CatchWrites_Unguarded(headersSent) == 1

\* The number of responses the catch block of a handler writes:
\* `if (!res.headersSent) { res.status(500)... }`.
CatchWrites(headersSent) == IF headersSent THEN 0 ELSE 1

\* The awaited call of the suspended handler h threw after the transport had
\* written the response `sent` (NoResponse: nothing), and the catch block
\* runs with the 500 response r.
Caught(h, fwd, sent, r) ==
    /\ out' = [route |-> handlers[h].route, kind |-> handlers[h].kind,
               sid |-> handlers[h].sid, fwd |-> fwd, first |-> FALSE,
               resp |-> IF sent = NoResponse THEN r ELSE sent,
               n |-> (IF sent = NoResponse THEN 0 ELSE 1)
                       + CatchWrites(sent # NoResponse)]
    /\ handlers' = [handlers EXCEPT ![h] = Idle]

\* The handler of request req suspends at its first await.
Suspend(req) ==
    /\ handlers' = [handlers EXCEPT ![Slot] = req]
    /\ out' = NoOutput

NotShuttingDown ==
    [pc |-> "idle", atStart |-> {}, last |-> 0, keys |-> <<>>, cur |-> 0,
     threw |-> FALSE]

\* app.listen(port, callback) was called and its callback has not run yet.
NotListening == [port |-> "unbound", proc |-> "starting"]

Init ==
    /\ agents = [s \in 1..MaxTransports |-> "none"]
    /\ listener = NotListening
    /\ io = {}
    /\ entry \in {"remote", "index"}
    /\ transports = EmptyMap
    /\ tobj = <<>>
    /\ uuidCount = 0
    /\ serverCount = 0
    /\ handlers = [h \in Handlers |-> Idle]
    /\ out = NoOutput
    /\ shutdown = NotShuttingDown
    /\ removed = {}
    /\ attempted = {}

\* History: ids whose entry is gone after the table changes from its present
\* value to m.
Track(m) == removed' = removed \cup (Registered \ DOMAIN m)

\* ============================================================ entry "remote"
\* ----------------------------------------------------------------- /mcp
\* The request kinds of /mcp: "init" is a POST whose body is an initialize
\* request, "delete" a DELETE, "request" any other POST and any GET (the
\* handler treats these alike; the transport serves both).
McpKinds == {"init", "request", "delete"}

\* The session ids a client can send: 0 for none, the ids issued so far, and
\* one id that was never issued.
ClientIds == 0..(uuidCount + 1)

\* The handler without the instanceof test of line 129.
McpDecision_NoInstanceof(k, sid) ==
    IF sid # 0 /\ sid \in Registered
    THEN "existing"
    ELSE IF sid = 0 /\ k = "init"
         THEN "initialize"
         ELSE "reject"

\* The handler creating a session for every request without a header.
McpDecision_NoBodyTest(k, sid) ==
    IF sid # 0 /\ sid \in Registered
    THEN IF tobj[transports[sid]].kind = "Streamable"
         THEN "existing"
         ELSE "wrongTransport"
    ELSE IF sid = 0
         THEN "initialize"
         ELSE "reject"

\* The handler connecting a server again before it serves a known session.
McpDecision_Reconnects(k, sid) ==
    IF sid # 0 /\ sid \in Registered
    THEN IF tobj[transports[sid]].kind = "Streamable"
         THEN "initialize"
         ELSE "wrongTransport"
    ELSE IF sid = 0 /\ k = "init"
         THEN "initialize"
         ELSE "reject"

\* The handler initializing on an initialize body whatever the header says.
McpDecision_NoHeaderTest(k, sid) ==
    IF sid # 0 /\ sid \in Registered
    THEN IF tobj[transports[sid]].kind = "Streamable"
         THEN "existing"
         ELSE "wrongTransport"
    ELSE IF k = "init"
         THEN "initialize"
         ELSE "reject"

\* The handler testing for an initialize body before it looks the header up.
McpDecision_InitFirst(k, sid) ==
    IF k = "init"
    THEN "initialize"
    ELSE IF sid # 0 /\ sid \in Registered
         THEN IF tobj[transports[sid]].kind = "Streamable"
              THEN "existing"
              ELSE "wrongTransport"
         ELSE "reject"

\* The branch taken by the /mcp handler for a request of kind k whose
\* mcp-session-id header is sid (0: no header).
McpDecision(k, sid) ==
    IF sid # 0 /\ sid \in Registered
    THEN IF tobj[transports[sid]].kind = "Streamable"
         THEN "existing"
         ELSE "wrongTransport"
    ELSE IF sid = 0 /\ k = "init"
         THEN "initialize"
         ELSE "reject"

\* An onclose callback that only logs.
StreamableOnClose_Keeps(t) == transports

\* transport.onclose of a Streamable transport: the table after the callback.
StreamableOnClose(t) ==
    LET sid == tobj[t].sessionId IN
    IF sid # 0 /\ sid \in Registered THEN MapDelete(transports, sid) ELSE transports

\* A callback that stores the transport the server made first.
OnSessionInitialized_FirstTransport(sid, t) == MapSet(transports, sid, Min({1, t}))

\* A callback that replaces the table instead of adding to it.
OnSessionInitialized_Replaces(sid, t) == [x \in {sid} |-> t]

\* onsessioninitialized: the table after the callback.
OnSessionInitialized(sid, t) == MapSet(transports, sid, t)

\* The handler up to its first await (or to its response).
McpRequest(k, sid) ==
    /\ entry = "remote"
    /\ Accepting
    /\ IdleSlots # {}
    /\ LET req == [Idle EXCEPT !.route = "mcp", !.kind = k, !.sid = sid]
           d == McpDecision(k, sid)
       IN
       /\ CASE d = "existing" ->
                 \* transport = existingTransport; transport.handleRequest(...)
                 /\ Suspend([req EXCEPT !.pc = "handleRequest", !.t = transports[sid]])
                 /\ UNCHANGED <<tobj, serverCount>>
            [] d = "wrongTransport" ->
                 /\ Reject(req, WrongTransport)
                 /\ UNCHANGED <<tobj, serverCount>>
            [] d = "initialize" ->
                 \* new transport, onclose set, createMcpServer(), server.connect(...)
                 /\ Len(tobj) < MaxTransports
                 /\ tobj' = Append(tobj, NewTransport("Streamable", 0))
                 /\ serverCount' = serverCount + 1
                 /\ Suspend([req EXCEPT !.pc = "connect", !.t = Len(tobj) + 1,
                                        !.server = createMcpServer])
            [] OTHER ->
                 /\ Reject(req, NoValidSession)
                 /\ UNCHANGED <<tobj, serverCount>>
       /\ io' = IF d = "initialize" THEN io \cup ConstructionIo(createMcpServer)
                 ELSE io
    /\ UNCHANGED <<agents, listener, entry, transports, uuidCount, shutdown, removed,
                   attempted>>

\* A connect that leaves the transport without its server.
ServerConnect_Detached(t, server) == tobj

\* server.connect(transport) of /mcp, when it succeeds: the server is
\* attached to the transport (a Streamable transport starts no stream in
\* start()).
ServerConnect(t, server) == [tobj EXCEPT ![t].server = server]

\* await server.connect(transport) settles; on success the handler goes on to
\* transport.handleRequest, on failure to the catch block.
McpConnected(h) ==
    /\ entry = "remote"
    /\ handlers[h].route = "mcp"
    /\ handlers[h].pc = "connect"
    /\ LET t == handlers[h].t IN
       \/ /\ tobj' = ServerConnect(t, handlers[h].server)
          /\ handlers' = [handlers EXCEPT ![h].pc = "handleRequest"]
          /\ out' = NoOutput
       \/ /\ Caught(h, 0, NoResponse, InternalError)
          /\ UNCHANGED tobj
    /\ UNCHANGED <<agents, listener, io, entry, transports, uuidCount, serverCount, shutdown, removed,
                   attempted>>

\* A catch block that resets the table.
McpCatch_Clears(t) == EmptyMap

\* A catch block that drops the session of the failed request.
McpCatch_ClosesSession(t) == MapDelete(transports, tobj[t].sessionId)

\* The table after the catch block of /mcp: it answers and touches no session.
McpCatch(t) == transports

\* await transport.handleRequest(req, res, req.body) settles.
McpHandled(h) ==
    /\ entry = "remote"
    /\ handlers[h].route = "mcp"
    /\ handlers[h].pc = "handleRequest"
    /\ LET t == handlers[h].t
           k == handlers[h].kind
       IN
       \/ \* the call throws: catch block, headers not sent
          /\ Caught(h, t, NoResponse, InternalError)
          /\ transports' = McpCatch(t)
          /\ Track(McpCatch(t))
          /\ UNCHANGED <<tobj, uuidCount, io>>
       \/ \* the transport rejects the request itself
          /\ Finish(h, t, SdkRejected)
          /\ UNCHANGED <<transports, tobj, uuidCount, removed, io>>
       \/ \* initialization: id generated, onsessioninitialized called
          /\ k = "init"
          /\ tobj[t].stream = "new"
          /\ LET sid == randomUUID IN
             /\ uuidCount' = uuidCount + 1
             /\ tobj' = [tobj EXCEPT ![t].sessionId = sid, ![t].stream = "open"]
             /\ transports' = OnSessionInitialized(sid, t)
             /\ Track(OnSessionInitialized(sid, t))
          /\ Finish(h, t, SdkOk)
          /\ UNCHANGED io
       \/ \* a message or a stream request of the session is served
          /\ k = "request"
          /\ tobj[t].stream = "open"
          /\ Finish(h, t, SdkOk)
          /\ io' \in OperationIo(tobj[t].server)
          /\ UNCHANGED <<transports, tobj, uuidCount, removed>>
       \/ \* DELETE: the transport closes itself and calls onclose
          /\ k = "delete"
          /\ tobj[t].stream # "new"
          /\ tobj' = [tobj EXCEPT ![t].stream = "gone"]
          /\ transports' = StreamableOnClose(t)
          /\ Track(StreamableOnClose(t))
          /\ Finish(h, t, SdkOk)
          /\ UNCHANGED <<uuidCount, io>>
    /\ UNCHANGED <<agents, listener, entry, serverCount, shutdown, attempted>>

\* ----------------------------------------------------------------- /sse
\* The GET requests of /sse: "get", and "foreign" for one whose Host or Origin
\* header is not on the allow-list the server was configured with (the lists
\* are handed to the transport's constructor as options and are read nowhere
\* else in the handler).
SseKinds == {"get", "foreign"}

\* GET /sse up to `await server.connect(transport)`: the transport is
\* constructed (its id is generated in the constructor), stored in the table,
\* the close listener is put on the response, the server is created.
SseRequest(k) ==
    /\ entry = "remote"
    /\ Accepting
    /\ IdleSlots # {}
    /\ Len(tobj) < MaxTransports
    /\ LET sid == randomUUID
           t == Len(tobj) + 1
       IN
       /\ uuidCount' = uuidCount + 1
       /\ tobj' = Append(tobj, NewTransport("SSE", sid))
       /\ transports' = MapSet(transports, sid, t)
       /\ Track(MapSet(transports, sid, t))
       /\ serverCount' = serverCount + 1
       /\ Suspend([Idle EXCEPT !.route = "sse", !.pc = "connect", !.kind = k,
                                !.t = t, !.server = createMcpServer])
       /\ io' = io \cup ConstructionIo(createMcpServer)
    /\ UNCHANGED <<agents, listener, entry, shutdown, attempted>>

\* await server.connect(transport) settles: the stream is started and the
\* server attached, or the catch block answers 500.
SseConnected(h) ==
    /\ entry = "remote"
    /\ handlers[h].route = "sse"
    /\ handlers[h].pc = "connect"
    /\ LET t == handlers[h].t IN
       \/ /\ tobj' = [tobj EXCEPT ![t].stream = "open",
                                  ![t].server = handlers[h].server]
          /\ Finish(h, 0, SseStreamOpen)
       \/ /\ Caught(h, 0, NoResponse, SseSetupError)
          /\ UNCHANGED tobj
    /\ UNCHANGED <<agents, listener, io, entry, transports, uuidCount, serverCount, shutdown, removed,
                   attempted>>

\* A removal left to the transport's onclose, which runs for a started
\* stream only.
ResCloseListener_StartedOnly(t) ==
    IF tobj[t].stream = "new" THEN transports
    ELSE MapDelete(transports, tobj[t].sessionId)

\* A close listener that empties the table.
ResCloseListener_ClearsAll(t) == EmptyMap

\* The "close" event of the response of GET /sse (the client went away, or the
\* response was ended): the listener of line 203 deletes the entry, then the
\* listener the transport installed when it started drops the stream.
ResCloseListener(t) == MapDelete(transports, tobj[t].sessionId)

ResClose(t) ==
    /\ entry = "remote"
    /\ t \in 1..Len(tobj)
    /\ tobj[t].kind = "SSE"
    /\ tobj[t].res = "open"
    /\ transports' = ResCloseListener(t)
    /\ Track(ResCloseListener(t))
    /\ tobj' = [tobj EXCEPT ![t].res = "closed",
                            ![t].stream = IF @ = "open" THEN "gone" ELSE @]
    /\ out' = NoOutput
    /\ UNCHANGED <<agents, listener, io, entry, uuidCount, serverCount, handlers, shutdown, attempted>>

\* ------------------------------------------------------------ /messages
\* The handler without the instanceof test of line 246.
MessagesDecision_NoInstanceof(sid) ==
    IF sid = 0 THEN "missing"
    ELSE IF sid \notin Registered THEN "notFound"
    ELSE "forward"

\* The branch taken by POST /messages?sessionId=sid (0: no parameter).
MessagesDecision(sid) ==
    IF sid = 0 THEN "missing"
    ELSE IF sid \notin Registered THEN "notFound"
    ELSE IF tobj[transports[sid]].kind # "SSE" THEN "wrongTransport"
    ELSE "forward"

MessagesRequest(sid) ==
    /\ entry = "remote"
    /\ Accepting
    /\ IdleSlots # {}
    /\ LET req == [Idle EXCEPT !.route = "messages", !.kind = "post", !.sid = sid]
           d == MessagesDecision(sid)
       IN
       CASE d = "missing" -> Reject(req, SessionIdRequired)
         [] d = "notFound" -> Reject(req, NoTransportFound)
         [] d = "wrongTransport" -> Reject(req, WrongTransport)
         [] OTHER ->
              Suspend([req EXCEPT !.pc = "handlePostMessage", !.t = transports[sid]])
    /\ UNCHANGED <<agents, listener, io, entry, transports, tobj, uuidCount, serverCount, shutdown,
                   removed, attempted>>

\* await existingTransport.handlePostMessage(req, res, req.body) settles.
\* errorResponse is what the handler's catch block writes when the transport
\* threw before sending headers.
PostMessageHandled(h, errorResponse) ==
    /\ handlers[h].route = "messages"
    /\ handlers[h].pc = "handlePostMessage"
    /\ LET t == handlers[h].t IN
       \/ \* no stream: the transport answers 500 itself and throws
          /\ tobj[t].stream # "open"
          /\ Caught(h, t, SdkNoStream, errorResponse)
          /\ UNCHANGED io
       \/ \* the message reaches the server of the stream
          /\ tobj[t].stream = "open"
          /\ Finish(h, t, SdkAccepted)
          /\ io' \in OperationIo(tobj[t].server)
       \/ \* the transport refuses the message
          /\ tobj[t].stream = "open"
          /\ Finish(h, t, SdkRejected)
          /\ UNCHANGED io
       \/ \* the call throws before any header is sent
          /\ tobj[t].stream = "open"
          /\ Caught(h, t, NoResponse, errorResponse)
          /\ UNCHANGED io
    /\ UNCHANGED <<agents, listener, entry, transports, tobj, uuidCount, serverCount,
                   shutdown, removed, attempted>>

MessagesHandled(h) ==
    /\ entry = "remote"
    /\ PostMessageHandled(h, InternalError)

\* --------------------------------------------------------------- stop()
\* transport.close() of the SDK, as seen from the table of this server: the
\* stream ends; a Streamable transport calls the onclose of lines 153-159, an
\* SSE transport has no onclose of this server (its entry goes with the
\* response's close event).
CloseMap(t) ==
    IF tobj[t].kind = "Streamable" THEN StreamableOnClose(t) ELSE transports

CloseObj(t) == [tobj EXCEPT ![t].stream = "gone"]

\* An iteration by position over a list the close handlers splice: after an
\* entry deleted itself the next one slides into its place and is passed over.
NextEntry_ByIndex ==
    LET later == {s \in Registered : s > shutdown.last}
        rest == later \ {Min(later)}
    IN
    IF later = {} THEN 0
    ELSE IF shutdown.last = 0 \/ shutdown.last \in Registered THEN Min(later)
    ELSE IF rest = {} THEN 0 ELSE Min(rest)

\* The Map iterator of `for (const [sessionId, transport] of this.transports)`:
\* entries in insertion order, those deleted meanwhile skipped, those added
\* meanwhile visited.  Ids are inserted in increasing order.
NextEntry ==
    LET later == {s \in Registered : s > shutdown.last} IN
    IF later = {} THEN 0 ELSE Min(later)

\* One run of stop() between two suspensions: the next iteration of the loop
\* up to `await transport.close()`, or, after the last entry, clear() and
\* server.close().
StopRun(sd) ==
    IF NextEntry # 0
    THEN LET sid == NextEntry
             t == transports[sid]
         IN
         /\ shutdown' = [sd EXCEPT !.pc = "loop", !.last = sid]
         /\ attempted' = attempted \cup {sid}
         /\ \/ /\ tobj' = CloseObj(t)
               /\ transports' = CloseMap(t)
               /\ Track(CloseMap(t))
            \/ \* close() throws: caught and logged
               /\ UNCHANGED <<tobj, transports, removed>>
    ELSE /\ shutdown' = [sd EXCEPT !.pc = "closing"]
         /\ transports' = EmptyMap
         /\ Track(EmptyMap)
         /\ UNCHANGED <<tobj, attempted>>

StopBegin ==
    /\ entry = "remote"
    /\ listener.proc = "running"
    /\ shutdown.pc = "idle"
    /\ StopRun([shutdown EXCEPT !.atStart = Registered])
    /\ out' = NoOutput
    /\ UNCHANGED <<agents, listener, io, entry, uuidCount, serverCount, handlers>>

StopResume ==
    /\ entry = "remote"
    /\ shutdown.pc = "loop"
    /\ StopRun(shutdown)
    /\ out' = NoOutput
    /\ UNCHANGED <<agents, listener, io, entry, uuidCount, serverCount, handlers>>

\* The callback of server.close(): every connection has ended.
StopClosed ==
    /\ entry = "remote"
    /\ shutdown.pc = "closing"
    /\ IdleSlots = Handlers
    /\ \A t \in 1..Len(tobj) : tobj[t].kind = "SSE" => tobj[t].res = "closed"
    /\ shutdown' = [shutdown EXCEPT !.pc = "done"]
    /\ out' = NoOutput
    /\ UNCHANGED <<agents, listener, io, entry, transports, tobj, uuidCount, serverCount, handlers,
                   removed, attempted>>

\* -------------------------------------------------------------- /health
\* options.orgName (index.ts: orgName), the organization the server was
\* started for.
orgName == "contoso"

\* A health answer that depends on the sessions.
HealthResponse_Degraded ==
    IF Registered = {}
    THEN [status |-> 200, code |-> 0, msg |-> "healthy", organization |-> orgName]
    ELSE [status |-> 503, code |-> 0, msg |-> "busy", organization |-> orgName]

\* res.json({status: 'healthy', organization, ...})
HealthResponse ==
    [status |-> 200, code |-> 0, msg |-> "healthy", organization |-> orgName]

\* GET /health of either server: a handler without await that reads the
\* configuration only.
Health ==
    /\ Accepting
    /\ out' = [route |-> "health", kind |-> "get", sid |-> 0, fwd |-> 0,
               first |-> TRUE, resp |-> HealthResponse, n |-> 1]
    /\ UNCHANGED <<agents, listener, io, entry, transports, tobj, uuidCount, serverCount, handlers,
                   shutdown, removed, attempted>>

\* ============================================================= entry "index"
Running == shutdown.pc # "exited"

\* An onclose callback that only logs.
IxOnClose_Keeps(t) == transports

\* transport.onclose of index.ts lines 159-162: the table after the callback.
IxOnClose(t) == MapDelete(transports, tobj[t].sessionId)

\* GET /sse up to `await server.connect(transport)`.
IxSseRequest ==
    /\ entry = "index"
    /\ Accepting
    /\ IdleSlots # {}
    /\ Len(tobj) < MaxTransports
    /\ LET sid == randomUUID
           t == Len(tobj) + 1
       IN
       /\ uuidCount' = uuidCount + 1
       /\ tobj' = Append(tobj, NewTransport("SSE", sid))
       /\ transports' = MapSet(transports, sid, t)
       /\ Track(MapSet(transports, sid, t))
       /\ serverCount' = serverCount + 1
       /\ Suspend([Idle EXCEPT !.route = "sse", !.pc = "connect", !.kind = "get",
                                !.t = t, !.server = createMcpServer])
       /\ io' = io \cup ConstructionIo(createMcpServer)
    /\ UNCHANGED <<agents, listener, entry, shutdown, attempted>>

IxSseConnected(h) ==
    /\ entry = "index"
    /\ Running
    /\ handlers[h].route = "sse"
    /\ handlers[h].pc = "connect"
    /\ LET t == handlers[h].t IN
       \/ /\ tobj' = [tobj EXCEPT ![t].stream = "open",
                                  ![t].server = handlers[h].server]
          /\ Finish(h, 0, SseStreamOpen)
       \/ /\ Caught(h, 0, NoResponse, IxSseError)
          /\ UNCHANGED tobj
    /\ UNCHANGED <<agents, listener, io, entry, transports, uuidCount, serverCount, shutdown, removed,
                   attempted>>

\* The "close" event of the response of GET /sse.  index.ts puts no listener
\* on the response; the one the transport installed when it started drops the
\* stream and calls transport.onclose.
IxResClose(t) ==
    /\ entry = "index"
    /\ Running
    /\ t \in 1..Len(tobj)
    /\ tobj[t].res = "open"
    /\ IF tobj[t].stream # "new"
       THEN /\ transports' = IxOnClose(t)
            /\ Track(IxOnClose(t))
            /\ tobj' = [tobj EXCEPT ![t].res = "closed", ![t].stream = "gone"]
       ELSE /\ tobj' = [tobj EXCEPT ![t].res = "closed"]
            /\ UNCHANGED <<transports, removed>>
    /\ out' = NoOutput
    /\ UNCHANGED <<agents, listener, io, entry, uuidCount, serverCount, handlers, shutdown, attempted>>

\* The branch taken by POST /messages?sessionId=sid of index.ts.
IxMessagesDecision(sid) ==
    IF sid = 0 THEN "missing"
    ELSE IF sid \notin Registered THEN "notFound"
    ELSE "forward"

IxMessagesRequest(sid) ==
    /\ entry = "index"
    /\ Accepting
    /\ IdleSlots # {}
    /\ LET req == [Idle EXCEPT !.route = "messages", !.kind = "post", !.sid = sid]
           d == IxMessagesDecision(sid)
       IN
       CASE d = "missing" -> Reject(req, IxMissingSessionId)
         [] d = "notFound" -> Reject(req, IxSessionNotFound)
         [] OTHER ->
              Suspend([req EXCEPT !.pc = "handlePostMessage", !.t = transports[sid]])
    /\ UNCHANGED <<agents, listener, io, entry, transports, tobj, uuidCount, serverCount, shutdown,
                   removed, attempted>>

IxMessagesHandled(h) ==
    /\ entry = "index"
    /\ Running
    /\ PostMessageHandled(h, IxRequestError)

\* --------------------------------------------------------- SIGINT handler
RECURSIVE SortedSeq(_)
SortedSeq(S) == IF S = {} THEN <<>> ELSE <<Min(S)>> \o SortedSeq(S \ {Min(S)})

\* `for (const sessionId in transports)`: the keys present when the loop
\* starts, in insertion order; a key deleted before its turn is skipped.
RECURSIVE SkipDeleted(_, _)
SkipDeleted(keys, m) ==
    IF keys = <<>> \/ Head(keys) \in DOMAIN m
    THEN keys
    ELSE SkipDeleted(Tail(keys), m)

\* The table after the statement that follows the await of line 235: when
\* close() of the entry `cur` returned, `delete transports[cur]`; when it
\* threw, the catch block, which deletes nothing.
AfterAwait(sd) ==
    IF sd.cur # 0 /\ ~sd.threw THEN MapDelete(transports, sd.cur) ELSE transports

\* One run of the handler between two suspensions.
SigintRun(sd) ==
    LET m == AfterAwait(sd)
        keys == SkipDeleted(sd.keys, m)
    IN
    IF keys # <<>>
    THEN LET sid == Head(keys)
             t == m[sid]
         IN
         /\ attempted' = attempted \cup {sid}
         /\ \/ \* close(): the stream ends, onclose deletes the entry
               /\ shutdown' = [sd EXCEPT !.pc = "loop", !.keys = Tail(keys),
                                         !.cur = sid, !.threw = FALSE]
               /\ tobj' = CloseObj(t)
               /\ transports' = MapDelete(m, tobj[t].sessionId)
               /\ Track(MapDelete(m, tobj[t].sessionId))
            \/ \* close() throws
               /\ shutdown' = [sd EXCEPT !.pc = "loop", !.keys = Tail(keys),
                                         !.cur = sid, !.threw = TRUE]
               /\ transports' = m
               /\ Track(m)
               /\ UNCHANGED tobj
    ELSE \* process.exit(0)
         /\ shutdown' = [sd EXCEPT !.pc = "exited", !.keys = <<>>, !.cur = 0]
         /\ transports' = m
         /\ Track(m)
         /\ UNCHANGED <<tobj, attempted>>

SigintBegin ==
    /\ entry = "index"
    /\ listener.proc = "running"
    /\ shutdown.pc = "idle"
    /\ SigintRun([shutdown EXCEPT !.atStart = Registered,
                                  !.keys = SortedSeq(Registered)])
    /\ out' = NoOutput
    /\ UNCHANGED <<agents, listener, io, entry, uuidCount, serverCount, handlers>>

SigintResume ==
    /\ entry = "index"
    /\ shutdown.pc = "loop"
    /\ SigintRun(shutdown)
    /\ out' = NoOutput
    /\ UNCHANGED <<agents, listener, io, entry, uuidCount, serverCount, handlers>>

\* ================================================================ app.listen
\* What becomes of the start when the callback of app.listen gets an error:
\* the error is only logged and the start goes on.
ListenError_Logged == "running"

\* What becomes of the start when the callback of app.listen gets an error:
\* index.ts calls process.exit(1); start() of part_006 rejects its promise
\* and returns, so the start never completes.
ListenError == "aborted"

\* The callback of app.listen runs without an error: the port is bound.
Listen ==
    /\ listener.proc = "starting"
    /\ listener' = [port |-> "bound", proc |-> "running"]
    /\ UNCHANGED <<agents, io, entry, transports, tobj, uuidCount, serverCount, handlers,
                   out, shutdown, removed, attempted>>

\* The callback of app.listen runs with an error: the port cannot be bound.
ListenFailed ==
    /\ listener.proc = "starting"
    /\ listener' = [port |-> "error", proc |-> ListenError]
    /\ UNCHANGED <<agents, io, entry, transports, tobj, uuidCount, serverCount, handlers,
                   out, shutdown, removed, attempted>>

\* ================================================================== system
Next ==
    \/ Listen
    \/ ListenFailed
    \/ \E k \in McpKinds, sid \in ClientIds : McpRequest(k, sid)
    \/ \E h \in Handlers : McpConnected(h)
    \/ \E h \in Handlers : McpHandled(h)
    \/ \E k \in SseKinds : SseRequest(k)
    \/ \E h \in Handlers : SseConnected(h)
    \/ \E t \in 1..MaxTransports : ResClose(t)
    \/ \E sid \in ClientIds : MessagesRequest(sid)
    \/ \E h \in Handlers : MessagesHandled(h)
    \/ StopBegin
    \/ StopResume
    \/ StopClosed
    \/ IxSseRequest
    \/ \E h \in Handlers : IxSseConnected(h)
    \/ \E t \in 1..MaxTransports : IxResClose(t)
    \/ \E sid \in ClientIds : IxMessagesRequest(sid)
    \/ \E h \in Handlers : IxMessagesHandled(h)
    \/ SigintBegin
    \/ SigintResume
    \/ Health

Spec == Init /\ [][Next]_vars

\* ============================================================== entry "http"
\* startHttpServer of part_005: /mcp keeps no table; every request gets a
\* server and a transport of its own.
HttpInit ==
    /\ agents = [s \in 1..MaxTransports |-> "none"]
    /\ listener = NotListening
    /\ io = {}
    /\ entry = "http"
    /\ transports = EmptyMap
    /\ tobj = <<>>
    /\ uuidCount = 0
    /\ serverCount = 0
    /\ handlers = [h \in Handlers |-> Idle]
    /\ out = NoOutput
    /\ shutdown = NotShuttingDown
    /\ removed = {}
    /\ attempted = {}

\* part_005 lines 190-195
HttpInternalError == [status |-> 500, code |-> 0, msg |-> "Internal server error"]

\* A handler that goes back to the transport that issued the session id of
\* the request.
HttpTransport_Resumes(sid) ==
    IF sid # 0 /\ \E t \in 1..Len(tobj) : tobj[t].sessionId = sid
    THEN CHOOSE t \in 1..Len(tobj) : tobj[t].sessionId = sid
    ELSE Len(tobj) + 1

\* The transport object that serves a request whose mcp-session-id header is
\* sid: `new StreamableHTTPServerTransport({...})`, whatever the header.
HttpTransport(sid) == Len(tobj) + 1

\* ALL /mcp up to `await createMcpServer()`: the server is built.
HttpMcpRequest(k, sid) ==
    /\ entry = "http"
    /\ Accepting
    /\ IdleSlots # {}
    /\ serverCount < MaxTransports
    /\ serverCount' = serverCount + 1
    /\ io' = io \cup ConstructionIo(createMcpServer)
    /\ Suspend([Idle EXCEPT !.route = "mcp", !.pc = "create", !.kind = k,
                             !.sid = sid, !.server = createMcpServer])
    /\ UNCHANGED <<agents, listener, entry, transports, tobj, uuidCount, shutdown,
                   removed, attempted>>

\* await createMcpServer() settles: the transport is constructed and the
\* handler suspends at `await mcpServer.connect(transport)`.
HttpCreated(h) ==
    /\ entry = "http"
    /\ handlers[h].route = "mcp"
    /\ handlers[h].pc = "create"
    /\ LET t == HttpTransport(handlers[h].sid) IN
       /\ tobj' = IF t > Len(tobj)
                  THEN Append(tobj, NewTransport("Streamable", 0))
                  ELSE tobj
       /\ handlers' = [handlers EXCEPT ![h].pc = "connect", ![h].t = t]
    /\ out' = NoOutput
    /\ UNCHANGED <<agents, listener, io, entry, transports, uuidCount, serverCount,
                   shutdown, removed, attempted>>

\* await mcpServer.connect(transport) settles.
HttpConnected(h) ==
    /\ entry = "http"
    /\ handlers[h].route = "mcp"
    /\ handlers[h].pc = "connect"
    /\ LET t == handlers[h].t IN
       \/ /\ tobj' = ServerConnect(t, handlers[h].server)
          /\ handlers' = [handlers EXCEPT ![h].pc = "handleRequest"]
          /\ out' = NoOutput
       \/ /\ Caught(h, 0, NoResponse, HttpInternalError)
          /\ UNCHANGED tobj
    /\ UNCHANGED <<agents, listener, io, entry, transports, uuidCount, serverCount,
                   shutdown, removed, attempted>>

\* await transport.handleRequest(req, res, req.body) settles.  The transport
\* is new: it serves an initialize request, generating a session id, and
\* refuses anything else.
HttpHandled(h) ==
    /\ entry = "http"
    /\ handlers[h].route = "mcp"
    /\ handlers[h].pc = "handleRequest"
    /\ LET t == handlers[h].t
           k == handlers[h].kind
       IN
       \/ \* the call throws: catch block, headers not sent
          /\ Caught(h, t, NoResponse, HttpInternalError)
          /\ UNCHANGED <<tobj, uuidCount>>
       \/ \* initialization: the transport generates its session id
          /\ k = "init"
          /\ tobj[t].stream = "new"
          /\ uuidCount' = uuidCount + 1
          /\ tobj' = [tobj EXCEPT ![t].sessionId = randomUUID, ![t].stream = "open"]
          /\ Finish(h, t, SdkOk)
       \/ \* the transport is not initialized, or is so already: it refuses
          /\ k # "init" \/ tobj[t].stream # "new"
          /\ Finish(h, t, SdkRejected)
          /\ UNCHANGED <<tobj, uuidCount>>
    /\ UNCHANGED <<agents, listener, io, entry, transports, serverCount, shutdown,
                   removed, attempted>>

\* SIGINT / SIGTERM of part_005: server.close(callback); the listener takes
\* no further request.
HttpSignal ==
    /\ entry = "http"
    /\ listener.proc = "running"
    /\ shutdown.pc = "idle"
    /\ shutdown' = [shutdown EXCEPT !.pc = "closing"]
    /\ out' = NoOutput
    /\ UNCHANGED <<agents, listener, io, entry, transports, tobj, uuidCount,
                   serverCount, handlers, removed, attempted>>

\* The callback of server.close(): every connection has ended;
\* process.exit(0).
HttpClosed ==
    /\ entry = "http"
    /\ shutdown.pc = "closing"
    /\ IdleSlots = Handlers
    /\ shutdown' = [shutdown EXCEPT !.pc = "exited"]
    /\ out' = NoOutput
    /\ UNCHANGED <<agents, listener, io, entry, transports, tobj, uuidCount,
                   serverCount, handlers, removed, attempted>>

HttpNext ==
    \/ Listen
    \/ \E k \in McpKinds, sid \in ClientIds : HttpMcpRequest(k, sid)
    \/ \E h \in Handlers : HttpCreated(h)
    \/ \E h \in Handlers : HttpConnected(h)
    \/ \E h \in Handlers : HttpHandled(h)
    \/ Health
    \/ HttpSignal
    \/ HttpClosed

HttpSpec == HttpInit /\ [][HttpNext]_vars

\* ----------------------------------------------------------- oninitialized
\* What a client reports about itself in its initialize request.
ClientInfos == {"vscode", "cli"}

\* A composer shared by every server.
appendMcpClientInfo_Shared(s, info) == [x \in DOMAIN agents |-> info]

\* userAgentComposer.appendMcpClientInfo(server.server.getClientVersion()) of
\* the composer createMcpServer / createServer made for server s.
appendMcpClientInfo(s, info) == [agents EXCEPT ![s] = info]

\* () => userAgentComposer.userAgent, and the userAgent option of the WebApi
\* connection the closure of getAzureDevOpsClient builds: what server s sends
\* as its user agent.
userAgent(s) == agents[s]

\* server.server.oninitialized of the server of transport t: the client of
\* the session has sent its "initialized" notification in a message that is
\* being handled, after an initialize request that reported info.
OnInitialized(t, info) ==
    /\ t \in 1..Len(tobj)
    /\ tobj[t].server # 0
    /\ tobj[t].stream = "open"
    /\ \E h \in Handlers :
         /\ handlers[h].pc \in {"handleRequest", "handlePostMessage"}
         /\ handlers[h].t = t
         /\ handlers[h].kind \in {"request", "post"}
    /\ agents[tobj[t].server] = "none"
    /\ agents' = appendMcpClientInfo(tobj[t].server, info)
    /\ UNCHANGED <<listener, io, entry, transports, tobj, uuidCount, serverCount,
                   handlers, out, shutdown, removed, attempted>>

\* The server while it serves, with the client information its sessions
\* report: the requests and their continuations, the closing of responses,
\* and oninitialized.  stop() and the SIGINT handler touch no composer.
AgentNext ==
    \/ Listen
    \/ \E k \in McpKinds, sid \in ClientIds : McpRequest(k, sid)
    \/ \E h \in Handlers : McpConnected(h)
    \/ \E h \in Handlers : McpHandled(h)
    \/ \E k \in SseKinds : SseRequest(k)
    \/ \E h \in Handlers : SseConnected(h)
    \/ \E t \in 1..MaxTransports : ResClose(t)
    \/ \E sid \in ClientIds : MessagesRequest(sid)
    \/ \E h \in Handlers : MessagesHandled(h)
    \/ IxSseRequest
    \/ \E h \in Handlers : IxSseConnected(h)
    \/ \E t \in 1..MaxTransports : IxResClose(t)
    \/ \E sid \in ClientIds : IxMessagesRequest(sid)
    \/ \E h \in Handlers : IxMessagesHandled(h)
    \/ \E t \in 1..MaxTransports, info \in ClientInfos : OnInitialized(t, info)

AgentSpec == Init /\ [][AgentNext]_vars

\* ---------------------------------------------------------------- fairness
\* The response of GET /sse closes without the client's doing: the transport
\* ended it (close()), or the handler answered 500 after connect failed.
ResEnded(t) ==
    /\ t \in 1..Len(tobj)
    /\ \/ tobj[t].stream = "gone"
       \/ /\ tobj[t].stream = "new"
          /\ \A h \in Handlers : ~(handlers[h].pc = "connect" /\ handlers[h].t = t)
    /\ ResClose(t)

\* Every awaited call settles, so a suspended handler, stop() and the SIGINT
\* handler are resumed; a response that was ended closes; the callback of
\* server.close() runs once every connection has ended.  When a client
\* sends a request, disconnects or a signal arrives is up to the environment.
Fairness ==
    /\ \A h \in Handlers :
         /\ WF_vars(McpConnected(h))
         /\ WF_vars(McpHandled(h))
         /\ WF_vars(SseConnected(h))
         /\ WF_vars(MessagesHandled(h))
         /\ WF_vars(IxSseConnected(h))
         /\ WF_vars(IxMessagesHandled(h))
    /\ \A t \in 1..MaxTransports : WF_vars(ResEnded(t))
    /\ WF_vars(StopResume)
    /\ WF_vars(StopClosed)
    /\ WF_vars(SigintResume)

FairSpec == Spec /\ Fairness

\* ================================================================== claims
KindOf(x) == tobj[transports[x]].kind

\* The handlers that have handed their request to a transport and wait for it.
InFlight(h) == handlers[h].pc \in {"handleRequest", "handlePostMessage"}

\* The handler in slot h starts in this step and suspends.
Starts(h) == handlers[h].pc = "idle" /\ handlers'[h].pc # "idle"

\* C1: a POST /messages?sessionId=x whose x is registered as a Streamable
\* (/mcp) session is answered "Session exists but uses a different transport
\* protocol", not "No transport found", and is handed to no transport: no
\* /messages handler ever waits on a Streamable transport.
C1_WrongTransportNotMissing ==
    /\ (out.route = "messages" /\ out.first /\ out.sid \in Registered
            /\ KindOf(out.sid) = "Streamable")
         => (out.resp = WrongTransport /\ out.fwd = 0)
    /\ \A h \in Handlers :
         handlers[h].route = "messages" => tobj[handlers[h].t].kind = "SSE"

C1_Witness ==
    /\ out.route = "messages"
    /\ out.sid \in Registered
    /\ KindOf(out.sid) = "Streamable"
    /\ out.resp = WrongTransport

\* C2: a session id belongs to one transport object, hence one transport
\* kind, for as long as it is registered (the entry of x maps to the only
\* object whose session id is x); /mcp hands requests only to Streamable
\* transports and /messages only to SSE transports; a /mcp request whose
\* header id is registered as an SSE session is rejected as wrong transport.
C2_OneKindPerSession ==
    /\ \A x \in Registered : tobj[transports[x]].sessionId = x
    /\ \A t1, t2 \in 1..Len(tobj) :
         (tobj[t1].sessionId # 0 /\ tobj[t1].sessionId = tobj[t2].sessionId) => t1 = t2
    /\ \A h \in Handlers :
         /\ (handlers[h].route = "mcp" /\ handlers[h].t # 0)
              => tobj[handlers[h].t].kind = "Streamable"
         /\ (handlers[h].route = "messages" /\ handlers[h].t # 0)
              => tobj[handlers[h].t].kind = "SSE"
    /\ (out.fwd # 0 /\ out.route = "mcp") => tobj[out.fwd].kind = "Streamable"
    /\ (out.fwd # 0 /\ out.route = "messages") => tobj[out.fwd].kind = "SSE"
    /\ (out.route = "mcp" /\ out.first /\ out.sid \in Registered
            /\ KindOf(out.sid) = "SSE")
         => (out.resp = WrongTransport /\ out.fwd = 0)

C2_Witness ==
    /\ out.route = "mcp"
    /\ out.resp = WrongTransport
    /\ out.sid \in Registered
    /\ KindOf(out.sid) = "SSE"
    /\ \E x \in Registered : KindOf(x) = "Streamable"

\* The "no such session" answers of the three handlers.
NoSuchSession(route) ==
    IF route = "mcp" THEN NoValidSession
    ELSE IF entry = "remote" THEN NoTransportFound
    ELSE IxSessionNotFound

\* No removed id is registered, and a request naming a removed id is answered
\* "no such session".
C3_StaleInv ==
    /\ removed \cap Registered = {}
    /\ (out.first /\ out.sid \in removed) => out.resp = NoSuchSession(out.route)

\* No handler starts work for a removed id.
C3_StaleStep ==
    \A h \in Handlers : Starts(h) => handlers'[h].sid \notin removed

\* C3: once the entry of session id x has been removed, x is never registered
\* again, every request that names x (any /mcp kind, an initialize body
\* included, or /messages) is answered with the handler's "no such session"
\* error, and no handler starts work for it.
C3_ClosedIdNeverRevived == []C3_StaleInv /\ [][C3_StaleStep]_vars

C3_Witness ==
    /\ out.route = "mcp"
    /\ out.kind = "init"
    /\ out.sid \in removed
    /\ out.resp = NoValidSession

\* A /mcp handler working for a session id waits on the transport that has
\* that id, to which a server is connected, and has created no server itself.
C4_ResumedInv ==
    /\ \A h \in Handlers :
         (handlers[h].route = "mcp" /\ handlers[h].sid # 0)
           => /\ handlers[h].pc = "handleRequest"
              /\ tobj[handlers[h].t].sessionId = handlers[h].sid
              /\ tobj[handlers[h].t].server # 0
              /\ handlers[h].server = 0
    /\ (out.route = "mcp" /\ out.sid # 0 /\ ~out.first)
         => (out.fwd # 0 /\ tobj[out.fwd].sessionId = out.sid)

\* Taking a resumed request up changes neither table, transports nor servers;
\* a request naming a registered Streamable id is not rejected; the server of
\* a transport never changes.
C4_ResumedStep ==
    /\ \A h \in Handlers :
         (Starts(h) /\ handlers'[h].route = "mcp" /\ handlers'[h].sid # 0)
           => /\ handlers'[h].t = transports[handlers'[h].sid]
              /\ UNCHANGED <<transports, tobj, serverCount, uuidCount>>
    /\ \A x \in Registered :
         KindOf(x) = "Streamable"
           => ~(out'.route = "mcp" /\ out'.first /\ out'.sid = x /\ out' # out)
    /\ \A t \in 1..Len(tobj) :
         tobj[t].server # 0 => tobj'[t].server = tobj[t].server

\* C4: a /mcp request that carries a registered Streamable session id is
\* handed to the transport that was given that id at initialization, with the
\* server connected to it then; taking the request up creates no transport,
\* no server and no table entry, and the server of a transport never changes.
C4_SameTransportAndServer == []C4_ResumedInv /\ [][C4_ResumedStep]_vars

C4_Witness ==
    /\ out.route = "mcp"
    /\ out.kind = "request"
    /\ out.sid # 0
    /\ out.resp = SdkOk
    /\ out.sid \in Registered

\* C5: initializations on /mcp whose handling interleaves get pairwise
\* distinct session ids; each id is registered to the transport of its own
\* request, and its entry goes only when that transport is closed or stop()
\* clears the table, never through another initialization.
C5_ConcurrentInit ==
    \A t \in 1..Len(tobj) :
      (tobj[t].kind = "Streamable" /\ tobj[t].sessionId # 0)
        => /\ \A u \in 1..Len(tobj) : tobj[u].sessionId = tobj[t].sessionId => u = t
           /\ tobj[t].sessionId \in Registered => transports[tobj[t].sessionId] = t
           /\ tobj[t].sessionId \notin Registered
                => (tobj[t].stream = "gone" \/ shutdown.pc \in {"closing", "done"})

\* Two sessions whose initializations overlapped: the transport made first got
\* the later id.
C5_Witness ==
    /\ Len(tobj) = 2
    /\ tobj[1].kind = "Streamable" /\ tobj[2].kind = "Streamable"
    /\ tobj[1].sessionId = 2 /\ tobj[2].sessionId = 1
    /\ Registered = {1, 2}
    /\ transports[1] = 2 /\ transports[2] = 1

\* C6: when stop() has completed, close() has been called on every session
\* that was open when it was invoked and was not closed by its own client
\* meanwhile, whether or not an earlier close() threw, and the table holds no
\* entry.
C6_StopLeavesNoEntry ==
    (entry = "remote" /\ shutdown.pc = "done")
      => /\ \A x \in shutdown.atStart : x \in attempted \/ x \in removed
         /\ Registered = {}

\* The part of C6 about the loop: every session open at the start is closed
\* by stop() or was closed before its turn, and nothing of them stays.
C6_LoopPart ==
    (entry = "remote" /\ shutdown.pc \in {"closing", "done"})
      => /\ \A x \in shutdown.atStart : x \in attempted \/ x \in removed
         /\ shutdown.atStart \cap Registered = {}

\* C7: when the SIGINT handler of index.ts reaches process.exit(0), every
\* session has been closed and its entry removed, also when a close() threw.
C7_SigintDrainsTable ==
    (entry = "index" /\ shutdown.pc = "exited") => Registered = {}

\* The transport a POST /messages handler has just looked up still has its
\* stream.
C8_LookupStep ==
    \A h \in Handlers :
      (Starts(h) /\ handlers'[h].route = "messages")
        => tobj[handlers'[h].t].stream # "gone"

\* C8: a POST /messages that finds an entry never finds one whose SSE stream
\* is already gone: the stream is released and the entry removed in one step.
C8_NoEntryWithoutStream == [][C8_LookupStep]_vars

\* A step that leaves a waiting handler of a registered session as it is
\* leaves the session's entry in the table.
C9_RemovalStep ==
    \A h \in Handlers :
      (InFlight(h) /\ handlers'[h] = handlers[h]
          /\ tobj[handlers[h].t].sessionId \in Registered)
        => tobj[handlers[h].t].sessionId \in DOMAIN transports'

\* C9: the entry of a session is not removed while a handler that was handed
\* to the session's transport is still waiting for it (the handler that brings
\* the removal about, a DELETE, is not counted).
C9_NoRemovalWhileInFlight == [][C9_RemovalStep]_vars

\* The requests the routing accepts.
Accepted(req) ==
    CASE req.route = "mcp" ->
           \/ req.sid = 0 /\ req.kind = "init"
           \/ req.sid \in Registered /\ KindOf(req.sid) = "Streamable"
      [] req.route = "messages" ->
           /\ req.sid \in Registered
           /\ entry = "remote" => KindOf(req.sid) = "SSE"
      [] OTHER -> TRUE

\* A step that answers a request in its first run answers 4xx, the request is
\* one the routing does not accept, and nothing but the response changes.
C10_RejectStep ==
    /\ (out'.first /\ out'.route # "health")
         => /\ out'.resp.status \in 400..499
            /\ ~Accepted(out')
            /\ UNCHANGED <<agents, listener, io, entry, transports, tobj, uuidCount, serverCount,
                           handlers, shutdown, removed, attempted>>
    /\ \A h \in Handlers : Starts(h) => Accepted(handlers'[h])

\* C10: a request the routing rejects (unknown id, id of the other transport
\* kind, no id on a request that is not an initialization, no sessionId
\* parameter) is answered 4xx in the same run and the step changes nothing
\* but the response: table, transports, servers and handlers stay as they
\* were; only requests the routing accepts start a handler.
C10_RejectionChangesNothing == [][C10_RejectStep]_vars

C10_Witness ==
    /\ out.first
    /\ out.route = "mcp"
    /\ out.kind = "request"
    /\ out.sid = 0
    /\ out.resp = NoValidSession
    /\ Registered # {}

\* C11: in the remote server a request naming an id that is not registered and
\* a request naming an id of the other transport kind are both answered with
\* an error envelope, and the error codes of the two answers differ.
C11_CodesDistinguishCases ==
    (entry = "remote" /\ out.first /\ out.sid # 0)
      => /\ out.resp.code < 0
         /\ out.sid \notin Registered => out.resp.code # WrongTransport.code
         /\ out.sid \in Registered => out.resp.code # NoSuchSession(out.route).code

\* The error answers the handlers of the remote server write themselves.
HandlerErrors ==
    {WrongTransport, NoValidSession, SessionIdRequired, NoTransportFound,
     InternalError, SseSetupError}

\* C12: every error answer written by the /mcp, /sse and /messages handlers
\* is an envelope {error: {code, message}, id: null} with a negative code.
C12_ErrorsAreEnvelopes ==
    (entry = "remote" /\ out.resp \in HandlerErrors)
      => (out.resp.code < 0 /\ out.resp.msg # "")

\* The error answers of the catch blocks that follow a dispatched message.
CatchErrors == {InternalError, IxRequestError}

\* A message that was handed to a transport is answered by the catch block.
C13_FailedStep ==
    \A h \in Handlers :
      (InFlight(h) /\ handlers'[h] = Idle /\ out'.resp \in CatchErrors)
        => /\ out'.fwd = handlers[h].t
           /\ UNCHANGED <<transports, tobj, serverCount, removed>>

\* After such an answer the session, if registered, still takes requests on
\* the same transport.
C13_FailedInv ==
    (out.resp \in CatchErrors /\ ~out.first /\ out.sid \in Registered)
      => /\ transports[out.sid] = out.fwd
         /\ out.route = "mcp" => McpDecision("request", out.sid) = "existing"
         /\ (out.route = "messages" /\ entry = "remote")
              => MessagesDecision(out.sid) = "forward"
         /\ (out.route = "messages" /\ entry = "index")
              => IxMessagesDecision(out.sid) = "forward"

\* C13: when handling a message of an established session throws, the caller
\* gets the internal-error answer of the catch block and the session stays as
\* it was: entry, transport and server are unchanged and later requests with
\* the same id are still handed to the same transport.
C13_ErrorKeepsSession == []C13_FailedInv /\ [][C13_FailedStep]_vars

C13_Witness ==
    /\ out.route = "mcp"
    /\ out.kind = "request"
    /\ out.resp = InternalError
    /\ out.sid \in Registered
    /\ tobj[out.fwd].stream = "open"
    /\ tobj[out.fwd].server # 0

\* The transports a step touches: their object changes, or the entry that
\* leads to them goes or changes.
Touched ==
    {t \in 1..Len(tobj) : tobj'[t] # tobj[t]}
      \cup {transports[x] :
              x \in {y \in Registered :
                       y \notin DOMAIN transports' \/ transports'[y] # transports[y]}}

\* The step in which stop() runs this.transports.clear().
ClearStep == shutdown.pc # "closing" /\ shutdown'.pc = "closing"

\* C14: a step on behalf of one session (a message served or failed, a
\* rejected request, a close, a disconnect) touches the entry, transport and
\* server of that session only, and moves no handler but its own: every other
\* session and its waiting requests stay as they were.  (clear() of stop(),
\* which is meant to remove all entries, is the one step left out.)
C14_FrameStep ==
    ~ClearStep
      => /\ Cardinality(Touched) <= 1
         /\ Cardinality({h \in Handlers : handlers'[h] # handlers[h]}) <= 1
         /\ out'.first => Touched = {}
         /\ out'.fwd # 0 => Touched \subseteq {out'.fwd}
         /\ \A h \in Handlers :
              (handlers[h].pc # "idle" /\ handlers'[h] # handlers[h])
                => Touched \subseteq {handlers[h].t}

C14_OtherSessionsUntouched == [][C14_FrameStep]_vars

\* One session's client has gone; the other session is open and registered.
C14_Witness ==
    /\ entry = "remote"
    /\ shutdown.pc = "idle"
    /\ \E t, u \in 1..Len(tobj) :
         /\ tobj[t].res = "closed"
         /\ tobj[t].sessionId \in removed
         /\ tobj[u].sessionId \in Registered
         /\ tobj[u].stream = "open"
         /\ tobj[u].server # 0

\* The server made for transport t: the one connected to it, or the one the
\* handler that constructed t is connecting.
ServerOf(t) ==
    IF tobj[t].server # 0
    THEN tobj[t].server
    ELSE IF \E h \in Handlers : handlers[h].pc = "connect" /\ handlers[h].t = t
         THEN handlers[CHOOSE h \in Handlers :
                         handlers[h].pc = "connect" /\ handlers[h].t = t].server
         ELSE 0

\* C15 as stated: every registered session has a server of its own.
C15_ExactlyOneServer ==
    \A x \in Registered : ServerOf(transports[x]) # 0

\* C15: no two entries lead to the same transport, no two transports have the
\* same server, a server is made for one transport only and never replaced
\* by use of another session's; a registered Streamable session, and a
\* registered SSE session whose stream is open, has a server connected.  (An
\* SSE session is registered before its server is connected, and stays
\* registered without one if connecting fails.)
C15_FreshServerPerSession ==
    /\ \A x, y \in Registered : transports[x] = transports[y] => x = y
    /\ \A t, u \in 1..Len(tobj) :
         (ServerOf(t) # 0 /\ ServerOf(t) = ServerOf(u)) => t = u
    /\ \A t \in 1..Len(tobj) : ServerOf(t) <= serverCount
    /\ \A x \in Registered :
         (KindOf(x) = "Streamable" \/ tobj[transports[x]].stream = "open")
           => tobj[transports[x]].server # 0

\* Two registered sessions of different kinds, each with its own server.
C15_Witness ==
    /\ Cardinality(Registered) = 2
    /\ \E x, y \in Registered :
         /\ KindOf(x) = "Streamable" /\ KindOf(y) = "SSE"
         /\ tobj[transports[x]].server # 0
         /\ tobj[transports[y]].server # 0
         /\ tobj[transports[x]].server # tobj[transports[y]].server

\* The step in which a DELETE is served takes exactly the entry of its session
\* out of the table and ends the transport.
C16_DeleteStep ==
    \A h \in Handlers :
      (handlers[h].route = "mcp" /\ handlers[h].kind = "delete"
          /\ handlers'[h] = Idle /\ out'.resp = SdkOk)
        => /\ DOMAIN transports' = Registered \ {handlers[h].sid}
           /\ \A x \in DOMAIN transports' : transports'[x] = transports[x]
           /\ tobj'[handlers[h].t].stream = "gone"

\* After a served DELETE no id leads to the session's transport or server.
C16_DeleteInv ==
    (out.route = "mcp" /\ out.kind = "delete" /\ out.resp = SdkOk)
      => /\ out.sid \notin Registered
         /\ out.sid \in removed
         /\ \A x \in Registered :
              /\ transports[x] # out.fwd
              /\ tobj[transports[x]].server # tobj[out.fwd].server

\* C16: on /mcp a served DELETE of a session removes the entry the session's
\* initialization added and no other, so the table is as large as before the
\* initialization, and the session's server can be reached through no id.
C16_DeleteDeregisters == []C16_DeleteInv /\ [][C16_DeleteStep]_vars

C16_Witness ==
    /\ out.route = "mcp"
    /\ out.kind = "delete"
    /\ out.resp = SdkOk
    /\ out.sid \in removed
    /\ tobj[out.fwd].server # 0
    /\ tobj[out.fwd].stream = "gone"
    /\ Registered = {}

\* A POST /messages handler waits on the transport whose session id the
\* request named, and was answered by it.
C17_ForwardInv ==
    /\ \A h \in Handlers :
         handlers[h].route = "messages"
           => /\ tobj[handlers[h].t].kind = "SSE"
              /\ tobj[handlers[h].t].sessionId = handlers[h].sid
    /\ (out.route = "messages" /\ out.fwd # 0)
         => tobj[out.fwd].sessionId = out.sid

\* The step in which the response of an open stream closes removes the entry.
C17_DropStep ==
    \A t \in 1..Len(tobj) :
      (tobj[t].kind = "SSE" /\ tobj[t].stream = "open" /\ tobj[t].res = "open"
          /\ tobj'[t].res = "closed")
        => /\ tobj[t].sessionId \notin DOMAIN transports'
           /\ tobj'[t].stream = "gone"

\* C17: in both servers a POST /messages naming the session id of an open
\* GET /sse stream is handed to the transport of that stream and no other,
\* and when the connection of the stream drops the entry is removed.
C17_SseRoundTrip == []C17_ForwardInv /\ [][C17_DropStep]_vars

\* The connection of a stream dropped while a message of its session waits.
C17_Witness ==
    /\ entry = "index"
    /\ shutdown.pc = "idle"
    /\ \E h \in Handlers, t \in 1..Len(tobj) :
         /\ handlers[h].route = "messages"
         /\ handlers[h].t = t
         /\ tobj[t].server # 0
         /\ tobj[t].res = "closed"
         /\ tobj[t].stream = "gone"
         /\ tobj[t].sessionId \in removed

\* The close callbacks leave the table as it is when the entry of their
\* session is gone, take no entry but that of their session otherwise, and
\* do nothing when run again.
C18_CloseInv ==
    \A t \in 1..Len(tobj) :
      LET sid == tobj[t].sessionId IN
      /\ sid \notin Registered
           => /\ StreamableOnClose(t) = transports
              /\ ResCloseListener(t) = transports
              /\ IxOnClose(t) = transports
      /\ DOMAIN ResCloseListener(t) = Registered \ {sid}
      /\ DOMAIN IxOnClose(t) = Registered \ {sid}
      /\ DOMAIN StreamableOnClose(t) = Registered \ {sid}
      /\ MapDelete(ResCloseListener(t), sid) = ResCloseListener(t)
      /\ MapDelete(IxOnClose(t), sid) = IxOnClose(t)

\* A step on the transport of a session whose entry is gone (a second DELETE,
\* the response closing after stop() closed the transport or cleared the
\* table, the delete of index.ts line 236 after onclose) changes no entry.
C18_CloseStep ==
    \A t \in 1..Len(tobj) :
      (tobj[t].sessionId # 0 /\ tobj[t].sessionId \notin Registered
          /\ tobj'[t] # tobj[t])
        => transports' = transports

\* C18: closing is idempotent: a close event for a session whose entry was
\* already removed leaves the table as the first close left it and removes no
\* other session's entry.
C18_CloseIdempotent == []C18_CloseInv /\ [][C18_CloseStep]_vars

\* The SIGINT handler closed a session (onclose removed its entry), ran its
\* own delete for the same id and exited, while the entry of a session whose
\* close threw is still there.
C18_Witness ==
    /\ entry = "index"
    /\ shutdown.pc = "exited"
    /\ ~shutdown.threw
    /\ Cardinality(attempted) = 2
    /\ Cardinality(Registered) = 1
    /\ Cardinality(attempted \cap removed) = 1

\* C19: once stop() or the SIGINT handler has started it finishes: stop()
\* resolves, the SIGINT handler reaches process.exit(0).
C19_ShutdownCompletes ==
    (shutdown.pc # "idle") ~> (shutdown.pc \in {"done", "exited"})

\* The part of C19 that holds in both servers: the loop over the sessions
\* ends, whatever close() does.
C19_LoopEnds ==
    (shutdown.pc = "loop") ~> (shutdown.pc \in {"closing", "done", "exited"})

\* A request that arrives after shutdown began constructs no transport.
C20_ArrivalStep ==
    shutdown.pc # "idle" => Len(tobj') = Len(tobj)

\* C20: from the moment stop() or the SIGINT handler has started, no GET /sse
\* and no initialization on /mcp that arrives creates or registers a session.
C20_NoSessionDuringShutdown == [][C20_ArrivalStep]_vars

\* The entry of x goes in this step.
Removes(x) == x \in Registered /\ x \notin DOMAIN transports'

\* An entry goes only in a step of stop() or of the SIGINT handler, in the
\* step in which the response of its GET /sse closes, or in the step in which
\* its transport is closed by a served DELETE.
C21_RemovalStep ==
    \A x \in Registered :
      Removes(x)
        => \/ shutdown' # shutdown
           \/ /\ tobj[transports[x]].res = "open"
              /\ tobj'[transports[x]].res = "closed"
           \/ /\ out'.route = "mcp" /\ out'.kind = "delete"
              /\ out'.fwd = transports[x]
              /\ tobj[transports[x]].stream = "open"
              /\ tobj'[transports[x]].stream = "gone"

\* C21: a registered session lives until its client disconnects, its client
\* terminates it or the process shuts down: an entry goes only in a step of
\* transport close, response close or shutdown; serving a message, failing,
\* rejecting a request and requests of other sessions remove none.
C21_LivesUntilClosed == [][C21_RemovalStep]_vars

\* One session was terminated by DELETE, one ended with its connection.
C21_Witness ==
    /\ entry = "remote"
    /\ shutdown.pc = "idle"
    /\ Cardinality(removed) = 2
    /\ \E t, u \in 1..Len(tobj) :
         /\ tobj[t].kind = "Streamable" /\ tobj[t].stream = "gone"
         /\ tobj[u].kind = "SSE" /\ tobj[u].res = "closed"

\* C22: when the call that handles a request of an established session
\* throws (a write failure, an abrupt disconnect), the session is torn down
\* as by a clean close: after the error answer its entry is gone.
C22_IoErrorTearsDown ==
    (out.resp \in CatchErrors /\ ~out.first /\ out.fwd # 0
        /\ tobj[out.fwd].sessionId # 0 /\ tobj[out.fwd].stream = "open")
      => tobj[out.fwd].sessionId \notin Registered

\* C23: between two callbacks no session is half-registered (an id was
\* generated and its entry not yet inserted) or half-deregistered (its
\* transport was closed and its entry not yet removed).
C23_NoHalfState ==
    /\ \A t \in 1..Len(tobj) :
         tobj[t].sessionId # 0
           => (tobj[t].sessionId \in Registered \/ tobj[t].sessionId \in removed)
    /\ \A x \in Registered : tobj[transports[x]].stream # "gone"

\* The part of C23 about insertion, which holds: an id is in the table from
\* the step in which it was generated.
C23_InsertPart ==
    \A t \in 1..Len(tobj) :
      tobj[t].sessionId # 0
        => (tobj[t].sessionId \in Registered \/ tobj[t].sessionId \in removed)

\* A GET /sse from a host or origin that is not on the allow-list constructs
\* no transport, registers no id and creates no server.
C24_ForeignStep ==
    \A h \in Handlers :
      (Starts(h) /\ handlers'[h].route = "sse" /\ handlers'[h].kind = "foreign")
        => UNCHANGED <<tobj, transports, serverCount, uuidCount>>

\* C24: with allow-lists configured, a GET /sse whose Host or Origin is not
\* listed is rejected before any session object exists: it starts no handler
\* that has constructed a transport, registered an id or created a server.
C24_ForeignRejectedEarly == [][C24_ForeignStep]_vars

\* C25 as stated: the server of a GET /sse is created only after the stream
\* to the caller was opened.
C25_ServerAfterStream ==
    \A h \in Handlers :
      (handlers[h].route = "sse" /\ handlers[h].server # 0)
        => tobj[handlers[h].t].stream = "open"

\* An SSE transport has its id from construction and is registered at once;
\* while `server.connect` is pending the server exists, is not attached and
\* the stream is not open; an open stream has its server attached.
C25_OrderInv ==
    /\ \A t \in 1..Len(tobj) :
         tobj[t].kind = "SSE"
           => /\ tobj[t].sessionId # 0
              /\ tobj[t].sessionId \in Registered \cup removed
              /\ tobj[t].stream = "open" => tobj[t].server # 0
    /\ \A h \in Handlers :
         (handlers[h].route = "sse" /\ handlers[h].pc = "connect")
           => /\ handlers[h].server # 0
              /\ tobj[handlers[h].t].server = 0
              /\ tobj[handlers[h].t].stream # "open"

\* A GET /sse makes a new transport, a new id, a new entry and a new server,
\* and leaves every existing entry as it is.
C25_NewStep ==
    \A h \in Handlers :
      (Starts(h) /\ handlers'[h].route = "sse")
        => /\ Len(tobj') = Len(tobj) + 1
           /\ handlers'[h].t = Len(tobj) + 1
           /\ tobj'[Len(tobj) + 1].sessionId \notin Registered \cup removed
           /\ DOMAIN transports' = Registered \cup {tobj'[Len(tobj) + 1].sessionId}
           /\ transports'[tobj'[Len(tobj) + 1].sessionId] = Len(tobj) + 1
           /\ \A x \in Registered : transports'[x] = transports[x]
           /\ handlers'[h].server = serverCount + 1
           /\ serverCount' = serverCount + 1

\* C25: every GET /sse creates a new session and resumes none; the id is
\* generated, then the entry inserted, then the server created, and then, in
\* server.connect, the stream is opened and the server attached to it.
C25_SseSetupOrder == []C25_OrderInv /\ [][C25_NewStep]_vars

C25_Witness ==
    /\ out.route = "sse"
    /\ out.resp = SseStreamOpen
    /\ \E t \in 1..Len(tobj) :
         /\ tobj[t].kind = "SSE"
         /\ tobj[t].stream = "open"
         /\ tobj[t].server # 0
         /\ tobj[t].sessionId \in Registered

\* A Streamable transport is constructed only by a POST /mcp without session
\* id whose body is an initialize request, and is not registered then; an
\* entry for a Streamable transport appears only in the step in which that
\* request is served, under the id generated in that step; an initialization
\* that is answered with an error adds no entry.
C26_CreateStep ==
    /\ (Len(tobj') > Len(tobj) /\ tobj'[Len(tobj')].kind = "Streamable")
         => /\ \E h \in Handlers :
                 /\ Starts(h)
                 /\ handlers'[h].route = "mcp"
                 /\ handlers'[h].kind = "init"
                 /\ handlers'[h].sid = 0
                 /\ handlers'[h].t = Len(tobj')
                 /\ handlers'[h].server = serverCount'
            /\ serverCount' = serverCount + 1
            /\ transports' = transports
    /\ \A x \in (DOMAIN transports') \ Registered :
         tobj'[transports'[x]].kind = "Streamable"
           => /\ out'.route = "mcp" /\ out'.kind = "init" /\ out'.sid = 0
              /\ out'.resp = SdkOk
              /\ out'.fwd = transports'[x]
              /\ tobj[transports'[x]].sessionId = 0
              /\ tobj'[transports'[x]].sessionId = x
              /\ x = uuidCount + 1
              /\ uuidCount' = x
    /\ (out'.route = "mcp" /\ out'.kind = "init" /\ out'.resp # SdkOk)
         => DOMAIN transports' \subseteq Registered

\* C26: a Streamable session comes into existence only through a POST /mcp
\* that carries no session id and an initialize body; its entry appears only
\* when the initialization is served, under the id generated then, and a
\* failed initialization leaves no entry.
C26_SessionOnlyByInit == [][C26_CreateStep]_vars

\* One initialization failed and left nothing, the next one was served.
C26_Witness ==
    /\ Len(tobj) = 2
    /\ tobj[1].kind = "Streamable" /\ tobj[1].sessionId = 0
    /\ \A h \in Handlers : handlers[h].pc = "idle"
    /\ out.route = "mcp" /\ out.kind = "init" /\ out.resp = SdkOk
    /\ out.fwd = 2
    /\ Registered = {tobj[2].sessionId}

\* A request that names a session and is taken up is handed to the transport
\* of that session in the run in which it arrives: the handler reaches its
\* call of the transport before it is suspended for the first time.
C27_HandOverStep ==
    \A h \in Handlers :
      (Starts(h) /\ handlers'[h].sid # 0)
        => /\ handlers'[h].pc \in {"handleRequest", "handlePostMessage"}
           /\ handlers'[h].sid \in Registered
           /\ handlers'[h].t = transports[handlers'[h].sid]
           /\ tobj[handlers'[h].t].sessionId = handlers'[h].sid

C28_HealthInv ==
    /\ out.route = "health"
         => /\ out.resp.status = 200
            /\ out.resp.msg = "healthy"
            /\ out.resp.organization = orgName
    /\ Accepting => ENABLED Health

\* Handling GET /health changes nothing but the response.
C28_HealthStep ==
    out'.route = "health"
      => UNCHANGED <<agents, listener, io, entry, transports, tobj, uuidCount,
                     serverCount, handlers, shutdown, removed, attempted>>

\* C28: while the server takes requests, GET /health is answered 200 with
\* status "healthy" and the configured organization, with no session and
\* with any number of sessions, and leaves table and sessions as they were.
C28_HealthAlwaysHealthy == []C28_HealthInv /\ [][C28_HealthStep]_vars

C28_Witness ==
    /\ out.route = "health"
    /\ out.resp = HealthResponse
    /\ Cardinality(Registered) = 2
    /\ \E h \in Handlers : InFlight(h)

\* Nothing has run in the server: no handler, no session, no shutdown.
NeverServed ==
    /\ Registered = {}
    /\ tobj = <<>>
    /\ uuidCount = 0
    /\ serverCount = 0
    /\ io = {}
    /\ \A h \in Handlers : handlers[h] = Idle
    /\ out = NoOutput
    /\ shutdown = NotShuttingDown
    /\ removed = {}

\* Once the port could not be bound the start is aborted and nothing has run;
\* and nothing runs before the port is bound.
C29_AbortedInv ==
    /\ listener.port = "error" => listener.proc = "aborted"
    /\ listener.port # "bound" => NeverServed /\ ~Accepting

\* No step leaves the state in which the port could not be bound.
C29_NoStepAfterFailure == listener.port # "error"

\* C29: when the port cannot be bound the start is aborted: the server never
\* gets to listen, no route handler runs and no session is registered after
\* the failure.
C29_StartupFailureAborts == []C29_AbortedInv /\ [][C29_NoStepAfterFailure]_vars

\* The port could not be bound.
C29_Witness == listener.port = "error" /\ listener.proc = "aborted"

\* Every server that asked for a credential or a connection is attached to a
\* session whose stream was opened.
C30_IoInv ==
    \A s \in io :
      \E t \in 1..Len(tobj) : tobj[t].server = s /\ tobj[t].stream # "new"

\* A server asks for a credential or a connection only in a step in which a
\* message of its session is served.
C30_IoStep ==
    \A s \in io' \ io :
      /\ ~out'.first
      /\ out'.kind \in {"request", "post"}
      /\ out'.resp \in {SdkOk, SdkAccepted}
      /\ out'.fwd \in 1..Len(tobj)
      /\ tobj[out'.fwd].server = s
      /\ tobj[out'.fwd].stream = "open"

\* C30: creating a bound server makes no credential request and no backend
\* connection; a server makes its first one while a message the client sent
\* in its session is being handled.
C30_NoIoBeforeOperation == []C30_IoInv /\ [][C30_IoStep]_vars

\* One server has asked for a credential, another one, attached to an open
\* session, has not.
C30_Witness ==
    /\ io # {}
    /\ \E t \in 1..Len(tobj) :
         /\ tobj[t].server # 0
         /\ tobj[t].server \notin io
         /\ tobj[t].stream = "open"

\* C31: the key of every entry of the table is the session id of the
\* transport the entry maps to (a Streamable transport's id is the one
\* handed to onsessioninitialized, an SSE transport's the one made in its
\* constructor), and no other transport has that id: a lookup by id returns
\* the transport that owns the id.
C31_KeyIsSessionId ==
    \A x \in Registered :
      /\ transports[x] \in 1..Len(tobj)
      /\ tobj[transports[x]].sessionId = x
      /\ \A t \in 1..Len(tobj) : tobj[t].sessionId = x => t = transports[x]

\* A Streamable and an SSE session are registered together.
C31_Witness ==
    /\ Cardinality(Registered) = 2
    /\ \E x, y \in Registered : KindOf(x) = "Streamable" /\ KindOf(y) = "SSE"

\* A Streamable entry goes into the table only in a step that serves the
\* initialize request of a transport its server is connected to.
C32_RegisterStep ==
    \A x \in DOMAIN transports' \ Registered :
      tobj'[transports'[x]].kind = "Streamable"
        => /\ tobj[transports'[x]].server # 0
           /\ tobj[transports'[x]].stream = "new"
           /\ \E h \in Handlers :
                /\ handlers[h].pc = "handleRequest"
                /\ handlers[h].t = transports'[x]
                /\ handlers'[h] = Idle

\* Every Streamable entry has a server attached.
C32_StreamableHasServer ==
    \A x \in Registered : KindOf(x) = "Streamable" => tobj[transports[x]].server # 0

\* C32: a Streamable session is registered after its server was connected to
\* its transport, inside handleRequest, so every Streamable entry of the table
\* has a server attached; an entry without one is an SSE entry.
C32_RegisteredAfterConnect == []C32_StreamableHasServer /\ [][C32_RegisterStep]_vars

\* A Streamable entry with its server beside an SSE entry that has none yet.
C32_Witness ==
    \E x, y \in Registered :
      /\ KindOf(x) = "Streamable" /\ tobj[transports[x]].server # 0
      /\ KindOf(y) = "SSE" /\ tobj[transports[y]].server = 0

\* The step in which `await server.connect(transport)` of GET /sse fails and
\* the catch block answers 500 leaves the table as it is and the transport
\* without a server.
C33_FailureStep ==
    \A h \in Handlers :
      (/\ entry = "remote"
       /\ handlers[h].route = "sse"
       /\ handlers[h].pc = "connect"
       /\ handlers'[h] = Idle
       /\ out'.resp = SseSetupError)
        => /\ transports' = transports
           /\ tobj'[handlers[h].t].server = 0

\* The step in which the response of a GET /sse closes removes its entry.
C33_CloseStep ==
    \A t \in 1..Len(tobj) :
      (entry = "remote" /\ tobj[t].kind = "SSE"
         /\ tobj[t].res = "open" /\ tobj'[t].res = "closed")
        => tobj[t].sessionId \notin DOMAIN transports'

\* No SSE entry is in the table once its response has closed.
C33_NoEntryAfterClose ==
    \A t \in 1..Len(tobj) :
      (entry = "remote" /\ tobj[t].kind = "SSE" /\ tobj[t].res = "closed")
        => tobj[t].sessionId \notin Registered

\* C33: when connecting the server fails in GET /sse of part_006 after the
\* session was registered, the catch block leaves the entry where it is, so
\* the session stays registered without a server; the close event of its
\* response removes it, and no SSE entry outlives the close of its response.
C33_FailedSetupStaysUntilClose ==
    /\ []C33_NoEntryAfterClose
    /\ [][C33_FailureStep /\ C33_CloseStep]_vars

\* connect failed: the handler has answered 500, the session is registered
\* without a server and its response is still open.
C33_Witness ==
    /\ entry = "remote"
    /\ out.resp = SseSetupError
    /\ \E x \in Registered :
         /\ KindOf(x) = "SSE"
         /\ tobj[transports[x]].server = 0
         /\ tobj[transports[x]].res = "open"
         /\ \A h \in Handlers : handlers[h].t # transports[x]

\* stop() calls close() on the entry x in this step.
C34_Closes(x) ==
    /\ entry = "remote"
    /\ shutdown'.pc = "loop"
    /\ shutdown'.last = x
    /\ shutdown'.last # shutdown.last

\* stop() calls close() on an entry it has not called close() on before, and
\* passes over no registered entry to reach it.
C34_OnceStep ==
    \A x \in SessionIds :
      C34_Closes(x)
        => /\ x \notin attempted
           /\ x \in Registered
           /\ \A y \in Registered : y > shutdown.last => x <= y

\* When the loop of stop() ends, every entry that was registered when stop()
\* started and is still registered has had close() called on it.
C34_EndStep ==
    (entry = "remote" /\ shutdown.pc # "closing" /\ shutdown'.pc = "closing")
      => \A x \in shutdown.atStart : x \in Registered => x \in attempted

\* C34 as stated: when the loop of stop() has ended, close() was called on
\* every transport that was registered when stop() started.
C34_ClosesAllAtStart ==
    (entry = "remote" /\ shutdown.pc \in {"closing", "done"})
      => shutdown.atStart \subseteq attempted

\* C34: stop() calls close() at most once on a transport, and exactly once on
\* every transport that was registered when it started and is still
\* registered when its turn in the loop comes; the close handler of a
\* Streamable transport, which deletes the transport's own entry during the
\* iteration, makes the loop pass over no other entry.
C34_StopClosesEachOnce == [][C34_OnceStep /\ C34_EndStep]_vars

\* stop() has ended its loop after calling close() on two sessions that were
\* registered when it started, one of them Streamable, whose close handler
\* deleted its entry during the iteration.
C34_Witness ==
    /\ entry = "remote"
    /\ shutdown.pc = "closing"
    /\ Cardinality(shutdown.atStart) = 2
    /\ shutdown.atStart \subseteq attempted
    /\ \E t \in 1..Len(tobj) :
         /\ tobj[t].kind = "Streamable"
         /\ tobj[t].sessionId = Min(shutdown.atStart)
         /\ tobj[t].stream = "gone"

\* A response written in the first run of a handler of /mcp, /sse or
\* /messages is the only one, and the handler returns with it.
C35_RejectOnce ==
    (out'.first /\ out'.route \in {"mcp", "sse", "messages"})
      => out'.n = 1 /\ handlers' = handlers

\* A handler that finishes has written one response.
C35_FinishOnce ==
    \A h \in Handlers :
      (handlers[h] # Idle /\ handlers'[h] = Idle) => out'.n = 1

\* No request has more than one response written to it.
C35_AtMostOne == out.n <= 1

\* C35: every request handled by /mcp, /sse or /messages gets at most one
\* response from its handler: a rejection branch writes one response and
\* returns, and the catch block writes its 500 only when no response headers
\* were sent.
C35_OneResponse == []C35_AtMostOne /\ [][C35_RejectOnce /\ C35_FinishOnce]_vars

\* handlePostMessage answered 500 itself (no stream) and threw: the catch
\* block found the headers sent and wrote nothing.
C35_Witness ==
    /\ out.route = "messages"
    /\ out.resp = SdkNoStream
    /\ out.n = 1
    /\ ~out.first

\* A message of the session whose server is s is being handled.
C36_OwnMessage(s) ==
    \E t \in 1..Len(tobj), h \in Handlers :
      /\ tobj[t].server = s
      /\ handlers[h].pc \in {"handleRequest", "handlePostMessage"}
      /\ handlers[h].t = t

\* The user agent of a server changes only while a message of its own session
\* is being handled.
C36_AgentStep ==
    \A s \in 1..MaxTransports :
      userAgent(s)' # userAgent(s) => C36_OwnMessage(s)

\* A server that holds client information is attached to a session.
C36_AgentInv ==
    \A s \in 1..MaxTransports :
      userAgent(s) # "none" => \E t \in 1..Len(tobj) : tobj[t].server = s

C37_NothingShared ==
    entry = "http"
      => /\ Registered = {}
         /\ \A g, h \in Handlers :
              (g # h /\ handlers[g] # Idle /\ handlers[h] # Idle)
                => /\ handlers[g].server # handlers[h].server
                   /\ handlers[g].t # 0 => handlers[g].t # handlers[h].t
         /\ \A h \in Handlers :
              (handlers[h].t # 0 /\ handlers[h].sid # 0)
                => tobj[handlers[h].t].sessionId # handlers[h].sid

\* The transport a request is given is an object no earlier request had, and
\* its server is attached to no earlier transport.
C37_FreshStep ==
    \A h \in Handlers :
      (entry = "http" /\ handlers[h].t = 0 /\ handlers'[h].t # 0)
        => /\ handlers'[h].t \notin 1..Len(tobj)
           /\ \A t \in 1..Len(tobj) : tobj[t].server # handlers[h].server

\* C37: in HTTP mode (startHttpServer) every request to /mcp is served by a
\* server and a transport made for that request alone and nothing is kept
\* between requests: no two requests share a transport or a server, and a
\* request that carries a session id an earlier response issued is not routed
\* to the transport that issued it.
C37_PerRequestTransport == []C37_NothingShared /\ [][C37_FreshStep]_vars

\* A request carrying the session id an earlier response issued waits on a
\* transport other than the one that issued the id.
C37_Witness ==
    /\ entry = "http"
    /\ \E h \in Handlers, u \in 1..Len(tobj) :
         /\ handlers[h].pc = "handleRequest"
         /\ handlers[h].sid # 0
         /\ tobj[u].sessionId = handlers[h].sid
         /\ handlers[h].t # u

====
